---- MODULE Spec2Model ----
(***************************************************************************)
(* CarbonSight CSRD app (src/app.py): the compressed-air power model, the  *)
(* waste-severity ladder and the "Generate Audit-Ready CSRD Report"        *)
(* handler (text-generation call, JSON extraction, JSON artifact, PDF      *)
(* assembly, error handlers).                                              *)
(*                                                                         *)
(* Numbers.  The program computes in binary floating point; the model      *)
(* computes in scaled integers with floor division.  Powers are in 1e-4    *)
(* hp / kW, specific powers in 1e-5 kW per CFM, the efficiency is in       *)
(* percent, the gap percentage is in 1/GapScale percent, and the pressure  *)
(* ratio raised to (GAMMA-1)/GAMMA = 2/7 is in 1/RScale.  Signs, zero      *)
(* divisors and the order of the computation are those of the code.        *)
(*                                                                         *)
(* Text.  Python strings are TLA+ strings; the text-generation response is *)
(* a sequence of tokens (whitespace, code-fence markers, one JSON or       *)
(* non-JSON body) whose concatenated text is the response.                 *)
(***************************************************************************)
EXTENDS Integers, Sequences, FiniteSets, TLC

VARIABLES
    meas,              \* the widgets' values (lines 31-39)
    metrics,           \* what the script's top level computed (lines 44-79)
    pc,                \* position of the report handler (lines 109-241)
    calls,             \* calls made to the text-generation service in this request
    response,          \* response.choices[0].message.content, as tokens
    final_report_str,  \* line 139-140
    final_report_json, \* line 141
    ui,                \* elements the handler has put on the page, in order
    pdf,               \* the FPDF document: a sequence of pages of cells
    pm,                \* pure-function check: a measurement
    pres,              \* pure-function check: result of the calculations on pm
    pg,                \* pure-function check: a gap percentage
    ptier              \* pure-function check: the tier of pg

vars == <<meas, metrics, pc, calls, response, final_report_str, final_report_json,
          ui, pdf, pm, pres, pg, ptier>>

appVars == <<meas, metrics, pc, calls, response, final_report_str, final_report_json,
             ui, pdf>>

pureVars == <<pm, pres, pg, ptier>>

(***************************************************************************)
(* Units and bounds of the model                                           *)
(***************************************************************************)
\* the gap percentage is carried in 1/GapScale percent
GapScale == 10

\* (discharge/inlet)^(2/7) is carried in 1/RScale
RScale == 4

\* narrative objects hold at most MaxEntries of the eight section keys
MaxEntries == 2

(***************************************************************************)
(* 1. PHYSICS ENGINE MODULE                                                *)
(***************************************************************************)
\* R * T_inlet = 53.3 * 520 (lines 15-16)
RT == 27716

RECURSIVE Pow(_, _)
Pow(b, e) == IF e = 0 THEN 1 ELSE b * Pow(b, e - 1)

\* (discharge / inlet) ** ((GAMMA - 1) / GAMMA), in 1/RScale, for positive
\* pressures: the largest k with (k/RScale)^7 <= (discharge/inlet)^2
PowRatio(discharge, inlet) ==
    LET n == (Pow(RScale, 7) * discharge * discharge) \div (inlet * inlet)
    IN  CHOOSE k \in 0..21 : Pow(k, 7) <= n /\ (k = 21 \/ Pow(k + 1, 7) > n)

\* calculate_compressed_air_power: the result in 1e-4 hp, or the exception
calculate_compressed_air_power(flow, inlet, discharge, eff) ==
    LET mass_flow == (inlet * flow * 10000) \div RT          \* 1e-4
    IN  IF inlet = 0 THEN [exc |-> "ZeroDivisionError", v |-> 0]
        ELSE LET head == (35 * RT * (PowRatio(discharge, inlet) - RScale))
                            \div (10 * RScale)
             IN  IF eff = 0 THEN [exc |-> "ZeroDivisionError", v |-> 0]
                 ELSE [exc |-> "", v |-> (mass_flow * head) \div (330 * eff)]

(***************************************************************************)
(* 4. AI waste diagnosis ladder (lines 68-79)                              *)
(***************************************************************************)
ClassifyLoose(gap) ==
    IF gap >= 50 * GapScale THEN "Critical"
    ELSE IF gap >= 20 * GapScale THEN "Significant"
    ELSE IF gap >= 5 * GapScale THEN "Moderate"
    ELSE "Optimal"

Classify(gap) ==
    IF gap > 50 * GapScale THEN "Critical"
    ELSE IF gap > 20 * GapScale THEN "Significant"
    ELSE IF gap > 5 * GapScale THEN "Moderate"
    ELSE "Optimal"

(***************************************************************************)
(* 3. CALCULATIONS (lines 44-51) followed by the ladder: the script's top  *)
(* level on one run.  status is "ok" or the exception that ended the run.  *)
(***************************************************************************)
NoMetrics(exc) ==
    [status |-> exc, theoretical_power_kw |-> 0, theoretical_specific_power |-> 0,
     actual_specific_power |-> 0, efficiency_gap_percent |-> 0, tier |-> "none"]

Calculations(m) ==
    LET hp == calculate_compressed_air_power(m.flow, m.inlet, m.discharge, m.eff)
    IN  IF hp.exc # "" THEN NoMetrics(hp.exc)
        ELSE IF m.flow = 0 THEN NoMetrics("ZeroDivisionError")            \* line 46
        ELSE
        LET kw     == (hp.v * 7457) \div 10000                          \* 1e-4 kW
            tsp    == (kw * 10) \div m.flow                             \* 1e-5 kW/CFM
            asp    == (m.actual * 100000) \div m.flow
            gap    == asp - tsp
        IN  IF tsp = 0 THEN NoMetrics("ZeroDivisionError")                \* line 51
            ELSE LET pct == (gap * 100 * GapScale) \div tsp
                 IN  [status |-> "ok", theoretical_power_kw |-> kw,
                      theoretical_specific_power |-> tsp,
                      actual_specific_power |-> asp,
                      efficiency_gap_percent |-> pct, tier |-> Classify(pct)]

\* the widgets' ranges (lines 31-38): every value respects min_value/max_value
WidgetValues ==
    [flow : {50, 300}, inlet : {14}, discharge : {50, 110}, eff : {72}, actual : {75}]

\* measurements handed to the calculations directly, valid or not (pressures are
\* kept positive: Python turns a negative ratio to a fractional power into a
\* complex number)
AnyMeasurement ==
    [flow : {-50, 0, 50, 300}, inlet : {14, 20}, discharge : {10, 14, 20, 50, 110},
     eff : {-50, 0, 10, 72}, actual : {10, 75}]

GapRange == (-10 * GapScale)..(60 * GapScale)

(***************************************************************************)
(* Python values.  A parsed JSON value is [t, s, items]: t is its Python   *)
(* type, s the text of a str or the digits of an int, items the entries of *)
(* a dict (<<key, value>>) or of a list (<<"", value>>) in iteration order.*)
(***************************************************************************)
NoValue == [t |-> "none", s |-> "", items |-> <<>>]
PyStrVal(x) == [t |-> "str", s |-> x, items |-> <<>>]
PyInt(n) == [t |-> "int", s |-> ToString(n), items |-> <<>>]
PyList(xs) == [t |-> "list", s |-> "", items |-> [i \in 1..Len(xs) |-> <<"", xs[i]>>]]
PyDict(kvs) == [t |-> "dict", s |-> "", items |-> kvs]

RECURSIVE Join(_, _)
\* sep.join(strs)
Join(strs, sep) ==
    IF Len(strs) = 0 THEN ""
    ELSE IF Len(strs) = 1 THEN strs[1]
    ELSE strs[1] \o sep \o Join(Tail(strs), sep)

RECURSIVE JsonDumps(_, _)
\* json.dumps(v, indent=4), the text at nesting indentation cur
JsonDumps(v, cur) ==
    LET inner == cur \o "    "
        entry(e) == IF v.t = "dict"
                    THEN inner \o "\"" \o e[1] \o "\": " \o JsonDumps(e[2], inner)
                    ELSE inner \o JsonDumps(e[2], inner)
    IN  CASE v.t = "str"  -> "\"" \o v.s \o "\""
          [] v.t = "int"  -> v.s
          [] v.t = "list" ->
                IF Len(v.items) = 0 THEN "[]"
                ELSE "[\n" \o Join([i \in 1..Len(v.items) |-> entry(v.items[i])], ",\n")
                           \o "\n" \o cur \o "]"
          [] v.t = "dict" ->
                IF Len(v.items) = 0 THEN "{}"
                ELSE "{\n" \o Join([i \in 1..Len(v.items) |-> entry(v.items[i])], ",\n")
                           \o "\n" \o cur \o "}"

\* str(v) of a str or an int (the model nests containers one level only, and
\* str() is applied to scalars)
PyStr(v) == v.s

\* dict.get(key, default) on a dict value
DictGet(d, key, default) ==
    IF \E i \in 1..Len(d.items) : d.items[i][1] = key
    THEN d.items[CHOOSE i \in 1..Len(d.items) : d.items[i][1] = key][2]
    ELSE default

(***************************************************************************)
(* Number formatting of the f-strings                                      *)
(***************************************************************************)
\* f"{x:.0f}" of x = n/scale: round half to even, "-0" for a negative that rounds to 0
Fmt0(n, scale) ==
    LET q == n \div scale
        r == n % scale
        up == 2 * r > scale \/ (2 * r = scale /\ q % 2 = 1)
        z == IF up THEN q + 1 ELSE q
    IN  IF z = 0 /\ n < 0 THEN "-0" ELSE ToString(z)

\* f"{x:.1f}" of a whole number x
Fmt1Whole(x) == ToString(x) \o ".0"

(***************************************************************************)
(* The text-generation response: tokens [k, txt, val].  k is "ws"          *)
(* (whitespace), "fence_json" (three backticks and the word json), "fence" *)
(* (three backticks), "json" (a JSON text, val its value) or "prose" (text *)
(* that is not JSON).  A TLA+ string cannot hold a backtick: in txt the    *)
(* character ~ stands for it.                                              *)
(***************************************************************************)
NL        == [k |-> "ws", txt |-> "\n", val |-> NoValue]
FenceJson == [k |-> "fence_json", txt |-> "~~~json", val |-> NoValue]
Fence     == [k |-> "fence", txt |-> "~~~", val |-> NoValue]
Prose     == [k |-> "prose", txt |-> "Here is the report you asked for.", val |-> NoValue]
JsonText(v) == [k |-> "json", txt |-> JsonDumps(v, ""), val |-> v]

\* the text of a token sequence
TokText(toks) == Join([i \in 1..Len(toks) |-> toks[i].txt], "")

RECURSIVE LStrip(_)
LStrip(toks) ==
    IF Len(toks) > 0 /\ Head(toks).k = "ws" THEN LStrip(Tail(toks)) ELSE toks

RECURSIVE RStrip(_)
RStrip(toks) ==
    IF Len(toks) > 0 /\ toks[Len(toks)].k = "ws"
    THEN RStrip(SubSeq(toks, 1, Len(toks) - 1)) ELSE toks

\* str.strip() (line 139)
Strip(toks) == RStrip(LStrip(toks))

\* the re.sub of line 140: removes a leading json-tagged fence with the whitespace
\* after it, and a trailing bare fence with the whitespace before it
StripFence(toks) ==
    LET a == IF Len(toks) > 0 /\ Head(toks).k = "fence_json"
             THEN LStrip(Tail(toks)) ELSE toks
    IN  IF Len(a) > 0 /\ a[Len(a)].k = "fence"
        THEN RStrip(SubSeq(a, 1, Len(a) - 1)) ELSE a

\* json.loads (line 141): whitespace around the one JSON text is allowed
JsonLoads(toks) ==
    LET body == Strip(toks)
    IN  IF Len(body) = 1 /\ body[1].k = "json"
        THEN [exc |-> "", val |-> body[1].val]
        ELSE [exc |-> "JSONDecodeError", val |-> NoValue]

(***************************************************************************)
(* Narratives the service may return                                       *)
(***************************************************************************)
\* the fields the prompt asks for (line 113), in its order
SectionKeys ==
    <<"executive_summary", "esrs_s1_analysis", "esrs_2_analysis",
      "materiality_assessment", "actionable_recommendations", "estimated_impact",
      "technical_analysis", "ai_waste_diagnosis">>

AB == PyDict(<< <<"a", PyInt(1)>>, <<"b", PyInt(2)>> >>)
BA == PyDict(<< <<"b", PyInt(2)>>, <<"a", PyInt(1)>> >>)

SectionValues ==
    {PyStrVal("Good."), PyInt(1), PyList(<<PyInt(1), PyStrVal("x")>>), AB, BA}

\* the i-th smallest member of a set of numbers
Nth(S, i) == CHOOSE k \in S : Cardinality({j \in S : j < k}) = i - 1

\* objects with at most MaxEntries of the section keys, in the order of the prompt
NarrativeObjects ==
    UNION { { PyDict([i \in 1..Cardinality(S) |->
                        <<SectionKeys[Nth(S, i)], f[Nth(S, i)]>>]) :
              f \in [S -> SectionValues] } :
            S \in {T \in SUBSET (1..Len(SectionKeys)) : Cardinality(T) <= MaxEntries} }

\* valid JSON whose top-level value is not an object
NonObjects == {PyList(<<PyStrVal("Good.")>>), PyStrVal("Good."), PyInt(1)}

Leads  == {<<>>, <<FenceJson, NL>>, <<Fence, NL>>, <<NL>>}
Trails == {<<>>, <<NL, Fence>>, <<NL, Fence, NL>>}

\* bodies that are tried with every lead and trail
FencedBodies ==
    {JsonText(v) : v \in {o \in NarrativeObjects : Len(o.items) <= 1} \cup NonObjects}
        \cup {Prose}

Responses ==
    {<<JsonText(v)>> : v \in NarrativeObjects \cup NonObjects}
        \cup {l \o <<b>> \o t : l \in Leads, b \in FencedBodies, t \in Trails}

(***************************************************************************)
(* The FPDF document: a sequence of pages, each the sequence of the cells  *)
(* written on it, with the font set when each was written.  Vertical       *)
(* spacing (pdf.ln) and automatic page breaks of overlong content are not  *)
(* modelled: a page here is what lies between two pdf.add_page() calls.    *)
(***************************************************************************)
Cell(txt, style, size, border) ==
    [op |-> "cell", txt |-> txt, style |-> style, size |-> size, border |-> border]

MultiCell(txt, style, size) ==
    [op |-> "multi_cell", txt |-> txt, style |-> style, size |-> size, border |-> FALSE]

\* pd.Timestamp.now().strftime("%Y-%m-%d") of line 170
Today == "2025-01-01"

\* the cover page (lines 164-171)
CoverPage ==
    << Cell("CSRD Compliance Report", "B", 20, FALSE),
       Cell("System: Industrial Compressed Air System", "", 14, FALSE),
       Cell("Report Date: " \o Today, "", 14, FALSE) >>

\* "key: value" lines of a mapping, joined by newlines
FlattenMapping(d) ==
    Join([i \in 1..Len(d.items) |-> d.items[i][1] \o ": " \o PyStr(d.items[i][2])], "\n")

\* a variant of the body that writes every mapping as "key: value" lines
SectionBodyFlat(content, is_table) ==
    IF content.t = "dict"
    THEN << MultiCell(FlattenMapping(content), "", 11) >>
    ELSE IF content.t = "list"
    THEN << MultiCell(JsonDumps(content, ""), "", 11) >>
    ELSE << MultiCell(PyStr(content), "", 11) >>

\* the body add_section writes under the title (lines 181-192)
SectionBody(content, is_table) ==
    IF is_table /\ content.t = "dict"
    THEN [j \in 1..(2 * Len(content.items)) |->
            IF j % 2 = 1 THEN Cell(content.items[(j + 1) \div 2][1], "", 11, TRUE)
            ELSE Cell(PyStr(content.items[j \div 2][2]), "", 11, TRUE)]
    ELSE IF content.t \in {"dict", "list"}
    THEN << MultiCell(JsonDumps(content, ""), "", 11) >>
    ELSE << MultiCell(PyStr(content), "", 11) >>

\* add_section without the page break: the section is written on the current page
add_section_same_page(doc, title, content, is_table) ==
    [doc EXCEPT ![Len(doc)] =
        @ \o << Cell(title, "B", 14, FALSE) >> \o SectionBody(content, is_table)]

\* add_section (lines 174-192): a new page, the title, the body
add_section(doc, title, content, is_table) ==
    Append(doc, << Cell(title, "B", 14, FALSE) >> \o SectionBody(content, is_table))

\* a variant of the calls with the summary ahead of the technical analysis
SectionCallsSummaryFirst ==
    << <<"Executive Summary", "executive_summary", FALSE>>,
       <<"Technical Analysis", "technical_analysis", TRUE>>,
       <<"ESRS S1 Analysis", "esrs_s1_analysis", FALSE>>,
       <<"ESRS 2 Analysis", "esrs_2_analysis", FALSE>>,
       <<"Materiality Assessment", "materiality_assessment", FALSE>>,
       <<"Actionable Recommendations", "actionable_recommendations", FALSE>>,
       <<"Estimated Impact", "estimated_impact", FALSE>>,
       <<"AI Waste Diagnosis", "ai_waste_diagnosis", FALSE>> >>

\* the add_section calls of lines 195-202: <<title, narrative key, is_table>>
SectionCalls ==
    << <<"Technical Analysis", "technical_analysis", TRUE>>,
       <<"Executive Summary", "executive_summary", FALSE>>,
       <<"ESRS S1 Analysis", "esrs_s1_analysis", FALSE>>,
       <<"ESRS 2 Analysis", "esrs_2_analysis", FALSE>>,
       <<"Materiality Assessment", "materiality_assessment", FALSE>>,
       <<"Actionable Recommendations", "actionable_recommendations", FALSE>>,
       <<"Estimated Impact", "estimated_impact", FALSE>>,
       <<"AI Waste Diagnosis", "ai_waste_diagnosis", FALSE>> >>

\* final_report_json.get(key, {}) of lines 195-202
NarrativeGet(narrative, key) == DictGet(narrative, key, PyDict(<<>>))

RECURSIVE AddSections(_, _, _)
\* the document after the add_section calls numbered i and up
AddSections(doc, narrative, i) ==
    IF i > Len(SectionCalls) THEN doc
    ELSE AddSections(add_section(doc, SectionCalls[i][1],
                                 NarrativeGet(narrative, SectionCalls[i][2]),
                                 SectionCalls[i][3]),
                     narrative, i + 1)

\* esrs_mapping (lines 91-107): <<standard, requirement, analysis>> rows
esrs_mapping(m, mt) ==
    << <<"ESRS S1", "S1-5: Energy consumption and mix",
         "Detailed energy consumption: " \o Fmt1Whole(m.actual) \o " kW">>,
       <<"ESRS S1", "S1-6: Gross Scopes 1, 2, and 3 emissions",
         "Scope 2 emissions calculation basis">>,
       <<"ESRS 2", "GOV-3: Integration into strategy",
         "Strategic energy efficiency opportunities">>,
       <<"ESRS 2", "SBM-3: Material impacts, risks and opportunities",
         "Material risk: " \o Fmt0(mt.efficiency_gap_percent, GapScale) \o "% energy waste">>,
       <<"ESRS S1", "S1-7: Emission removals and mitigation efforts",
         "Specific mitigation recommendations">> >>

Disclaimer ==
    "This audit-ready report provides structured CSRD compliance data for review by regulatory bodies or audit committees."

DisclaimerCell == MultiCell(Disclaimer, "I", 10)

\* the table of lines 206-219: title, header row, one row of three cells per entry
MappingTable(rows) ==
    << Cell("ESRS Disclosure Mapping", "B", 14, FALSE),
       Cell("ESRS Standard", "", 11, TRUE),
       Cell("Disclosure Requirement", "", 11, TRUE),
       Cell("Analysis Provided", "", 11, TRUE) >>
    \o [j \in 1..(3 * Len(rows)) |->
            Cell(rows[(j + 2) \div 3][((j - 1) % 3) + 1], "", 11, TRUE)]

\* lines 205-223: a new page with the mapping table, and the disclaimer after it
\* on that page
MappingPages(doc, rows) ==
    Append(doc, MappingTable(rows) \o << DisclaimerCell >>)

(***************************************************************************)
(* What the handler puts on the page                                       *)
(***************************************************************************)
Ui(k, data, file_name) == [k |-> k, data |-> data, file_name |-> file_name]

\* str(discharge_pressure_psia), a float widget
FloatStr(x) == ToString(x) \o ".0"

FileStem(m) == ToString(m.flow) \o "CFM_" \o FloatStr(m.discharge) \o "PSIA"

\* type(v).__name__
PyTypeName(v) == v.t

\* except Exception (lines 239-241)
OnException(msg) ==
    << Ui("error", "Error generating report: " \o msg, ""),
       Ui("info", "Ensure your OpenAI API key is set correctly in .streamlit/secrets.toml", "") >>

\* except json.JSONDecodeError (lines 236-238)
OnJSONDecodeError(str) ==
    << Ui("error", "Failed to parse AI response as JSON. Displaying raw output:", ""),
       Ui("code", TokText(str), "") >>

Has(k) == \E i \in 1..Len(ui) : ui[i].k = k

(***************************************************************************)
(* The application: widget changes and the report handler                  *)
(***************************************************************************)
\* the variables of the pure-function checks, at rest
PureIdle ==
    /\ pm = [flow |-> 300, inlet |-> 14, discharge |-> 110, eff |-> 72, actual |-> 75]
    /\ pres = NoMetrics("pending")
    /\ pg = 0
    /\ ptier = "pending"

Init ==
    /\ meas \in WidgetValues
    /\ metrics = Calculations(meas)
    /\ pc = "idle"
    /\ calls = 0
    /\ response = <<>>
    /\ final_report_str = <<>>
    /\ final_report_json = NoValue
    /\ ui = <<>>
    /\ pdf = <<>>
    /\ PureIdle

\* a widget changes: the script runs again with the button not pressed
SetInputs ==
    /\ pc \in {"idle", "done"}
    /\ \E m \in WidgetValues :
        /\ m # meas
        /\ meas' = m
        /\ metrics' = Calculations(m)
    /\ pc' = "idle"
    /\ calls' = 0
    /\ response' = <<>>
    /\ final_report_str' = <<>>
    /\ final_report_json' = NoValue
    /\ ui' = <<>>
    /\ pdf' = <<>>
    /\ UNCHANGED pureVars

\* the button is pressed (line 109): the script runs again from the top with the
\* same widget values and enters the try block
ClickGenerate ==
    /\ pc \in {"idle", "done"}
    /\ Calculations(meas).status = "ok"      \* the script reaches line 109
    /\ metrics' = Calculations(meas)
    /\ pc' = "call"
    /\ calls' = 0
    /\ response' = <<>>
    /\ final_report_str' = <<>>
    /\ final_report_json' = NoValue
    /\ ui' = <<>>
    /\ pdf' = <<>>
    /\ UNCHANGED <<meas, pureVars>>

\* lines 126-134 return a completion
CallReturns ==
    /\ pc = "call"
    /\ \E r \in Responses : response' = r
    /\ calls' = calls + 1
    /\ pc' = "extract"
    /\ UNCHANGED <<meas, metrics, final_report_str, final_report_json, ui, pdf, pureVars>>

\* a variant that calls the service a second time before it reports the failure
CallFailsRetries ==
    /\ pc = "call"
    /\ \E e \in {"KeyError", "APIConnectionError"} :
        /\ calls' = IF e = "KeyError" THEN calls ELSE calls + 1
        /\ IF e = "APIConnectionError" /\ calls < 1
           THEN pc' = "call" /\ ui' = ui
           ELSE pc' = "done" /\ ui' = ui \o OnException(e)
    /\ UNCHANGED <<meas, metrics, response, final_report_str, final_report_json, pdf,
                   pureVars>>

\* lines 126-134 raise: the secret is missing (no call is made) or the call fails
CallFails ==
    /\ pc = "call"
    /\ \E e \in {"KeyError", "APIConnectionError"} :
        /\ calls' = IF e = "KeyError" THEN calls ELSE calls + 1
        /\ ui' = ui \o OnException(e)
    /\ pc' = "done"
    /\ UNCHANGED <<meas, metrics, response, final_report_str, final_report_json, pdf,
                   pureVars>>

\* lines 139-141, and the JSONDecodeError handler when json.loads raises
Extract ==
    /\ pc = "extract"
    /\ LET str == StripFence(Strip(response))
           r   == JsonLoads(str)
       IN  /\ final_report_str' = str
           /\ final_report_json' = r.val
           /\ IF r.exc = ""
              THEN /\ pc' = "json"
                   /\ ui' = ui
              ELSE /\ pc' = "done"
                   /\ ui' = ui \o OnJSONDecodeError(str)
    /\ UNCHANGED <<meas, metrics, calls, response, pdf, pureVars>>

\* lines 143-154: the JSON is shown and offered for download
EmitJson ==
    /\ pc = "json"
    /\ ui' = ui \o << Ui("success", "Audit-ready JSON generated successfully!", ""),
                      Ui("json", JsonDumps(final_report_json, ""), ""),
                      Ui("download_json", JsonDumps(final_report_json, ""),
                         "CSRD_Report_" \o FileStem(meas) \o ".json") >>
    /\ pc' = "cover"
    /\ UNCHANGED <<meas, metrics, calls, response, final_report_str, final_report_json,
                   pdf, pureVars>>

\* lines 159-171
Cover ==
    /\ pc = "cover"
    /\ pdf' = << CoverPage >>
    /\ pc' = "sections"
    /\ UNCHANGED <<meas, metrics, calls, response, final_report_str, final_report_json,
                   ui, pureVars>>

\* lines 195-202; .get on a value that is no dict raises AttributeError (line 195)
Sections ==
    /\ pc = "sections"
    /\ IF final_report_json.t = "dict"
       THEN /\ pdf' = AddSections(pdf, final_report_json, 1)
            /\ pc' = "mapping"
            /\ ui' = ui
       ELSE /\ pdf' = pdf
            /\ pc' = "done"
            /\ ui' = ui \o OnException("'" \o PyTypeName(final_report_json)
                                        \o "' object has no attribute 'get'")
    /\ UNCHANGED <<meas, metrics, calls, response, final_report_str, final_report_json,
                   pureVars>>

\* lines 205-223
Mapping ==
    /\ pc = "mapping"
    /\ pdf' = MappingPages(pdf, esrs_mapping(meas, metrics))
    /\ pc' = "output"
    /\ UNCHANGED <<meas, metrics, calls, response, final_report_str, final_report_json,
                   ui, pureVars>>

\* lines 226-234: the document is written and offered for download
OutputPdf ==
    /\ pc = "output"
    /\ ui' = ui \o << Ui("download_pdf", "%PDF",
                         "CSRD_Audit_Report_" \o FileStem(meas) \o ".pdf") >>
    /\ pc' = "done"
    /\ UNCHANGED <<meas, metrics, calls, response, final_report_str, final_report_json,
                   pdf, pureVars>>

\* a variant whose error report replaces what the page showed
OutputPdfFailsClearsPage ==
    /\ pc = "output"
    /\ ui' = OnException("OSError")
    /\ pc' = "done"
    /\ UNCHANGED <<meas, metrics, calls, response, final_report_str, final_report_json,
                   pdf, pureVars>>

\* lines 226-228 raise (the temporary file cannot be written or read back)
OutputPdfFails ==
    /\ pc = "output"
    /\ ui' = ui \o OnException("OSError")
    /\ pc' = "done"
    /\ UNCHANGED <<meas, metrics, calls, response, final_report_str, final_report_json,
                   pdf, pureVars>>

Next ==
    \/ SetInputs
    \/ ClickGenerate
    \/ CallReturns
    \/ CallFails
    \/ Extract
    \/ EmitJson
    \/ Cover
    \/ Sections
    \/ Mapping
    \/ OutputPdf
    \/ OutputPdfFails

Spec == Init /\ [][Next]_vars

(***************************************************************************)
(* Pure-function specifications                                            *)
(***************************************************************************)
AppIdle ==
    /\ meas = [flow |-> 300, inlet |-> 14, discharge |-> 110, eff |-> 72, actual |-> 75]
    /\ metrics = Calculations(meas)
    /\ pc = "idle"
    /\ calls = 0
    /\ response = <<>>
    /\ final_report_str = <<>>
    /\ final_report_json = NoValue
    /\ ui = <<>>
    /\ pdf = <<>>

InitClassify ==
    /\ AppIdle
    /\ pm = [flow |-> 300, inlet |-> 14, discharge |-> 110, eff |-> 72, actual |-> 75]
    /\ pres = NoMetrics("pending")
    /\ pg \in GapRange
    /\ ptier = "pending"

DoClassify ==
    /\ ptier = "pending"
    /\ ptier' = Classify(pg)
    /\ UNCHANGED <<appVars, pm, pres, pg>>

SpecClassify == InitClassify /\ [][DoClassify]_vars

InitPower ==
    /\ AppIdle
    /\ pm \in AnyMeasurement
    /\ pres = NoMetrics("pending")
    /\ pg = 0
    /\ ptier = "pending"

DoCalculations ==
    /\ pres.status = "pending"
    /\ pres' = Calculations(pm)
    /\ UNCHANGED <<appVars, pm, pg, ptier>>

SpecPower == InitPower /\ [][DoCalculations]_vars

(***************************************************************************)
(* Reading the outcome of a request                                        *)
(***************************************************************************)
JsonArtifact == Has("download_json")
PdfArtifact  == Has("download_pdf")

\* a section title, as add_section and the mapping page write it (lines 176-177, 206-207)
IsTitle(c) == c.op = "cell" /\ c.style = "B" /\ c.size = 14

\* the closing paragraph (lines 222-223)
IsDisclaimer(c) == c.op = "multi_cell" /\ c.style = "I"

\* the name of the part of the report a title or the closing paragraph opens
PartName(c) ==
    IF IsDisclaimer(c) THEN "Disclaimer"
    ELSE IF c.txt = "ESRS Disclosure Mapping" THEN "Disclosure Mapping"
    ELSE c.txt

PageParts(page) ==
    LET opens(c) == IsTitle(c) \/ IsDisclaimer(c)
        cs == SelectSeq(page, opens)
    IN  [i \in 1..Len(cs) |-> PartName(cs[i])]

RECURSIVE ReportParts(_)
\* the parts of the document in the order they were written
ReportParts(doc) ==
    IF Len(doc) = 0 THEN <<>> ELSE PageParts(Head(doc)) \o ReportParts(Tail(doc))

\* the cells written under the title of the section named title
BodyOf(doc, title) ==
    LET p == CHOOSE i \in 1..Len(doc) : IsTitle(doc[i][1]) /\ doc[i][1].txt = title
    IN  Tail(doc[p])

Texts(cells) == [i \in 1..Len(cells) |-> cells[i].txt]

HasKey(d, key) == \E i \in 1..Len(d.items) : d.items[i][1] = key

\* the add_section calls have run on a narrative object
Assembled == pc \in {"mapping", "output", "done"} /\ Len(pdf) > Len(SectionCalls)

(***************************************************************************)
(* C1.  The severity tier is a total function of the gap percentage:       *)
(* Critical iff gap > 50, Significant iff 20 < gap <= 50, Moderate iff     *)
(* 5 < gap <= 20, Optimal iff gap <= 5, negative gaps included; the        *)
(* boundary values 50, 20 and 5 fall into the lower tier.                  *)
(***************************************************************************)
C1_Ladder ==
    ptier # "pending" =>
        /\ ptier \in {"Critical", "Significant", "Moderate", "Optimal"}
        /\ ptier = "Critical" <=> pg > 50 * GapScale
        /\ ptier = "Significant" <=> (20 * GapScale < pg /\ pg <= 50 * GapScale)
        /\ ptier = "Moderate" <=> (5 * GapScale < pg /\ pg <= 20 * GapScale)
        /\ ptier = "Optimal" <=> pg <= 5 * GapScale

C1_Witness == pg = 50 * GapScale /\ ptier = "Significant"

(***************************************************************************)
(* C2.  As claimed: every generated report holds exactly these 10 parts in *)
(* this order: Executive Summary, Technical Analysis, ESRS S1 Analysis,    *)
(* ESRS 2 Analysis, Materiality Assessment, Actionable Recommendations,    *)
(* Estimated Impact, AI Waste Diagnosis, Disclosure Mapping, Disclaimer.   *)
(***************************************************************************)
C2_Original ==
    PdfArtifact =>
        ReportParts(pdf) =
            <<"Executive Summary", "Technical Analysis", "ESRS S1 Analysis",
              "ESRS 2 Analysis", "Materiality Assessment", "Actionable Recommendations",
              "Estimated Impact", "AI Waste Diagnosis", "Disclosure Mapping",
              "Disclaimer">>

(***************************************************************************)
(* C2, amended.  Every generated report holds exactly these 10 parts in    *)
(* this order, whatever the narrative: Technical Analysis, Executive       *)
(* Summary, ESRS S1 Analysis, ESRS 2 Analysis, Materiality Assessment,     *)
(* Actionable Recommendations, Estimated Impact, AI Waste Diagnosis,       *)
(* Disclosure Mapping, Disclaimer.                                         *)
(***************************************************************************)
C2_FixedOrder ==
    PdfArtifact =>
        ReportParts(pdf) =
            <<"Technical Analysis", "Executive Summary", "ESRS S1 Analysis",
              "ESRS 2 Analysis", "Materiality Assessment", "Actionable Recommendations",
              "Estimated Impact", "AI Waste Diagnosis", "Disclosure Mapping",
              "Disclaimer">>

C2_Witness ==
    /\ PdfArtifact
    /\ HasKey(final_report_json, "executive_summary")
    /\ ~HasKey(final_report_json, "technical_analysis")

(***************************************************************************)
(* C3.  As claimed: for every narrative-derived section whose key is       *)
(* missing from the parsed narrative object, the section body is the fixed *)
(* placeholder "No <section> available." (<section> read as the title, the *)
(* title in lower case or the key), and the sections are still assembled.  *)
(***************************************************************************)
Placeholders(call) ==
    {"No " \o call[1] \o " available.", "No " \o call[2] \o " available."}
        \cup (IF call[2] = "executive_summary"
              THEN {"No executive summary available.", "No summary available."}
              ELSE {})

C3_Original ==
    (pc \in {"mapping", "output", "done"} /\ final_report_json.t = "dict") =>
        /\ Assembled
        /\ \A i \in 1..Len(SectionCalls) :
            ~HasKey(final_report_json, SectionCalls[i][2]) =>
                /\ Len(BodyOf(pdf, SectionCalls[i][1])) = 1
                /\ BodyOf(pdf, SectionCalls[i][1])[1].txt \in Placeholders(SectionCalls[i])

(***************************************************************************)
(* C4.  As claimed: a narrative-derived section whose value is a nested    *)
(* mapping has as its body one text block, the entries written             *)
(* "key: value" and joined by newlines in iteration order.                 *)
(***************************************************************************)
C4_Original ==
    Assembled =>
        \A i \in 1..Len(SectionCalls) :
            LET v == NarrativeGet(final_report_json, SectionCalls[i][2])
            IN  (HasKey(final_report_json, SectionCalls[i][2]) /\ v.t = "dict") =>
                    Texts(BodyOf(pdf, SectionCalls[i][1])) = << FlattenMapping(v) >>

(***************************************************************************)
(* C4, amended.  A narrative-derived section whose value is a nested       *)
(* mapping has as its body, in iteration order of the mapping: for         *)
(* Technical Analysis one bordered row of two cells, str(key) and          *)
(* str(value), per entry; for every other section one text block, the      *)
(* mapping as json.dumps(value, indent=4) writes it.  {"a": 1, "b": 2}     *)
(* gives the cells a, 1, b, 2, or the text of an indented JSON object.     *)
(***************************************************************************)
C4_NestedMapping ==
    Assembled =>
        \A i \in 1..Len(SectionCalls) :
            LET key  == SectionCalls[i][2]
                v    == NarrativeGet(final_report_json, key)
                body == BodyOf(pdf, SectionCalls[i][1])
            IN  (HasKey(final_report_json, key) /\ v \in {AB, BA}) =>
                    IF key = "technical_analysis"
                    THEN /\ Texts(body) = IF v = AB THEN <<"a", "1", "b", "2">>
                                          ELSE <<"b", "2", "a", "1">>
                         /\ \A j \in 1..Len(body) : body[j].op = "cell" /\ body[j].border
                    ELSE /\ Texts(body) = IF v = AB
                                          THEN << "{\n    \"a\": 1,\n    \"b\": 2\n}" >>
                                          ELSE << "{\n    \"b\": 2,\n    \"a\": 1\n}" >>
                         /\ body[1].op = "multi_cell"

C4_Witness ==
    /\ Assembled
    /\ NarrativeGet(final_report_json, "technical_analysis") = AB
    /\ NarrativeGet(final_report_json, "executive_summary") = BA

(***************************************************************************)
(* C5.  As claimed: a response that, once an optional leading and an       *)
(* optional trailing code-fence marker are stripped, is not valid JSON     *)
(* ends in the unparseable-narrative outcome (the response text is shown,  *)
(* no JSON artifact, no PDF artifact); a response that is valid JSON once  *)
(* an enclosing code fence is stripped is accepted.  The text shown may be *)
(* the response as received or as stripped.                                *)
(***************************************************************************)
\* the claim's stripping: an opening fence marker, tagged or not, and a closing one
StripAnyFence(toks) ==
    LET a == IF Len(toks) > 0 /\ Head(toks).k \in {"fence_json", "fence"}
             THEN LStrip(Tail(toks)) ELSE toks
    IN  IF Len(a) > 0 /\ a[Len(a)].k = "fence"
        THEN RStrip(SubSeq(a, 1, Len(a) - 1)) ELSE a

Unparseable ==
    /\ pc = "done"
    /\ Len(ui) = 2 /\ ui[1].k = "error" /\ ui[2].k = "code"
    /\ ui[2].data \in {TokText(response), TokText(Strip(response)),
                       TokText(final_report_str)}
    /\ ~JsonArtifact /\ ~PdfArtifact

C5_Original ==
    (pc \notin {"idle", "call", "extract"} /\ response # <<>>) =>
        IF JsonLoads(StripAnyFence(Strip(response))).exc = ""
        THEN ~Has("code")
        ELSE Unparseable

(***************************************************************************)
(* C6.  In every request the JSON artifact is produced before the PDF is   *)
(* begun and does not depend on it: the document is only ever built with   *)
(* the JSON artifact on the page; once produced the artifact stays on the  *)
(* page, unchanged, for the rest of the request; a failed PDF render is    *)
(* reported and leaves it there; no PDF artifact without a JSON artifact.  *)
(***************************************************************************)
JsonElement == ui[CHOOSE i \in 1..Len(ui) : ui[i].k = "download_json"]

C6_State ==
    /\ pdf # <<>> => JsonArtifact
    /\ PdfArtifact =>
        \E i, j \in 1..Len(ui) :
            i < j /\ ui[i].k = "download_json" /\ ui[j].k = "download_pdf"
    /\ JsonArtifact => JsonElement.data = JsonDumps(final_report_json, "")
    /\ (pc = "done" /\ pdf # <<>> /\ ~PdfArtifact) => (JsonArtifact /\ Has("error"))

C6_JsonBeforePdf ==
    /\ []C6_State
    /\ [][(JsonArtifact /\ pc' \notin {"idle", "call"}) =>
            (JsonArtifact' /\ JsonElement' = JsonElement)]_vars

C6_Witness ==
    /\ pc = "done"
    /\ Len(pdf) = Len(SectionCalls) + 2
    /\ ~PdfArtifact
    /\ JsonArtifact
    /\ ui[Len(ui) - 1].data = "Error generating report: OSError"

(***************************************************************************)
(* C7.  If the call to the text-generation service fails, the request ends *)
(* with a reported error and the handler finished: no JSON artifact, no    *)
(* PDF artifact, at most one call made in the request, and the metrics     *)
(* (theoretical power, gap percent, tier) as they were before the failure. *)
(***************************************************************************)
CallFailed == pc = "done" /\ response = <<>>

C7_CallFailure ==
    /\ [](calls <= 1)
    /\ [](CallFailed =>
            /\ Len(ui) = 2 /\ ui[1].k = "error" /\ ui[2].k = "info"
            /\ ~JsonArtifact /\ ~PdfArtifact /\ pdf = <<>>
            /\ metrics = Calculations(meas) /\ metrics.status = "ok")
    /\ [][(pc = "call" /\ pc' = "done") => (metrics' = metrics /\ meas' = meas)]_vars

C7_Witness == CallFailed /\ calls = 1 /\ metrics.tier = "Critical"

(***************************************************************************)
(* C8.  As claimed: whenever discharge pressure <= inlet pressure,         *)
(* efficiency <= 0 or flow rate <= 0, the power computation signals an     *)
(* error before anything is computed: no theoretical power, specific       *)
(* power, gap percent or tier is produced.  (Any exception is taken for    *)
(* the signal.)                                                            *)
(***************************************************************************)
InvalidMeasurement(m) == m.discharge <= m.inlet \/ m.eff <= 0 \/ m.flow <= 0

C8_Original ==
    (pres.status # "pending" /\ InvalidMeasurement(pm)) =>
        /\ pres.status # "ok"
        /\ pres.tier = "none"

(***************************************************************************)
(* C9.  As claimed: once the response has parsed as JSON, the sections are *)
(* assembled whatever the parsed value is (an object or not, keys missing, *)
(* values that are strings, numbers, lists or mappings), and the parsed    *)
(* narrative is left as it was.                                            *)
(***************************************************************************)
C9_Original ==
    (pc \in {"mapping", "output", "done"} /\ final_report_json # NoValue) =>
        /\ Assembled
        /\ final_report_json = JsonLoads(final_report_str).val
        /\ ~\E i \in 1..Len(ui) :
              ui[i].k = "error" /\ ui[i].data # "Error generating report: OSError"

(***************************************************************************)
(* C10.  As claimed: the cover page precedes all sections, and each of     *)
(* Executive Summary, Technical Analysis, the two ESRS analyses,           *)
(* Recommendations, Disclosure Mapping and Disclaimer starts a page.       *)
(***************************************************************************)
Built == pc \in {"output", "done"} /\ Len(pdf) > 1

MajorParts ==
    {"Executive Summary", "Technical Analysis", "ESRS S1 Analysis", "ESRS 2 Analysis",
     "Actionable Recommendations", "Disclosure Mapping", "Disclaimer"}

\* the part named part opens some page of the document after the cover
StartsPage(doc, part) ==
    \E p \in 2..Len(doc) :
        (IsTitle(doc[p][1]) \/ IsDisclaimer(doc[p][1])) /\ PartName(doc[p][1]) = part

CoverFirst(doc) == doc[1] = CoverPage /\ PageParts(doc[1]) = <<>>

C10_Original ==
    Built => (CoverFirst(pdf) /\ \A part \in MajorParts : StartsPage(pdf, part))

(***************************************************************************)
(* C10, amended.  The cover page precedes all sections, and a page break   *)
(* is emitted before each titled section (Technical Analysis, Executive    *)
(* Summary, the two ESRS analyses, Materiality Assessment, Recommendations,*)
(* Estimated Impact, AI Waste Diagnosis, Disclosure Mapping): each starts  *)
(* a page and no page holds two of them.  The disclaimer gets no page      *)
(* break: it follows the mapping table on the Disclosure Mapping page.     *)
(***************************************************************************)
C10_PageBreaks ==
    Built =>
        /\ CoverFirst(pdf)
        /\ Len(pdf) = Len(SectionCalls) + 2
        /\ \A p \in 2..Len(pdf) :
            /\ IsTitle(pdf[p][1])
            /\ \A j \in 2..Len(pdf[p]) : ~IsTitle(pdf[p][j])
        /\ \A part \in MajorParts \ {"Disclaimer"} : StartsPage(pdf, part)
        /\ LET last == pdf[Len(pdf)]
           IN  /\ PartName(last[1]) = "Disclosure Mapping"
               /\ IsDisclaimer(last[Len(last)])
               /\ Len(last) > 2

C10_Witness == PdfArtifact /\ Len(final_report_json.items) = MaxEntries

(***************************************************************************)
(* The metrics as the prompt states them (lines 116-121)                   *)
(***************************************************************************)
\* f"{x:.1f}" of x = n/scale: round half to even at the first decimal
\* (an exact decimal tie such as 0.35 has no binary float; Python rounds the
\* float nearest to it, the model rounds the tie to even)
Fmt1(n, scale) ==
    LET t  == 10 * n
        q  == t \div scale
        r  == t % scale
        up == 2 * r > scale \/ (2 * r = scale /\ q % 2 = 1)
        z  == IF up THEN q + 1 ELSE q
        a  == IF z < 0 THEN -z ELSE z
    IN  (IF z < 0 \/ (z = 0 /\ n < 0) THEN "-" ELSE "")
            \o ToString(a \div 10) \o "." \o ToString(a % 10)

\* the TECHNICAL ANALYSIS lines of expert_prompt: <<label, value>> in their order
PromptMetrics(m, mt) ==
    << <<"Flow Rate", ToString(m.flow) \o " CFM">>,
       <<"Discharge Pressure", FloatStr(m.discharge) \o " PSIA">>,
       <<"Theoretical Power", Fmt1(mt.theoretical_power_kw, 10000) \o " kW">>,
       <<"Actual Power", Fmt1Whole(m.actual) \o " kW">>,
       <<"System Efficiency",
         Fmt1(mt.theoretical_power_kw * 100, m.actual * 10000) \o "%">>,
       <<"Efficiency Gap", Fmt0(mt.efficiency_gap_percent, GapScale) \o "%">> >>

(***************************************************************************)
(* C11.  As claimed: the Technical Analysis section is always a key-value  *)
(* table with one row per computed metric (flow rate, discharge pressure,  *)
(* theoretical power, actual power, efficiency percentage, gap percentage) *)
(* in that order, whatever the narrative holds; what the narrative gives   *)
(* for technical_analysis only follows the table.  (A row is two bordered  *)
(* cells; only the count of the rows and the figure each value cell shows  *)
(* are compared, with or without its unit.)                                *)
(***************************************************************************)
\* the figure of a metric, as the prompt formats it, and without its unit
MetricFigures(m, mt) ==
    << {ToString(m.flow) \o " CFM", ToString(m.flow)},
       {FloatStr(m.discharge) \o " PSIA", FloatStr(m.discharge), ToString(m.discharge)},
       {Fmt1(mt.theoretical_power_kw, 10000) \o " kW", Fmt1(mt.theoretical_power_kw, 10000)},
       {Fmt1Whole(m.actual) \o " kW", Fmt1Whole(m.actual), ToString(m.actual)},
       {Fmt1(mt.theoretical_power_kw * 100, m.actual * 10000) \o "%",
        Fmt1(mt.theoretical_power_kw * 100, m.actual * 10000)},
       {Fmt0(mt.efficiency_gap_percent, GapScale) \o "%",
        Fmt0(mt.efficiency_gap_percent, GapScale)} >>

C11_Original ==
    Assembled =>
        LET body == BodyOf(pdf, "Technical Analysis")
            rows == Len(PromptMetrics(meas, metrics))
        IN  /\ Len(body) >= 2 * rows
            /\ \A j \in 1..(2 * rows) : body[j].op = "cell" /\ body[j].border
            /\ \A r \in 1..rows : body[2 * r].txt \in MetricFigures(meas, metrics)[r]
            /\ \A j \in (2 * rows + 1)..Len(body) : body[j].op = "multi_cell"

====
